---- MODULE Spec2Model ----
(***************************************************************************)
(* Crowd-density backend (backend/main.py): the detect pipeline            *)
(* (ROI crop, person detection, coordinate remapping, density, status),    *)
(* the n8n alert throttle, and the request handlers that run them on one   *)
(* cooperative event loop.                                                 *)
(*                                                                         *)
(* Numbers.  Python floats are modelled exactly on decimal grids:          *)
(* areas and thresholds in thousandths, a reported density in hundredths,  *)
(* an unrounded density as a fraction [num, den] of thousandths, detector  *)
(* coordinates in half pixels, confidences in percent.  Times are whole    *)
(* clock ticks.                                                            *)
(***************************************************************************)
EXTENDS Integers, Sequences, FiniteSets

VARIABLES
    model,                  \* "None" | "loaded"          (main.py:40)
    ENABLE_N8N_ALERTS,      \* BOOLEAN, read once at start (main.py:44)
    ALERT_COOLDOWN_SECONDS, \* integer, read once at start (main.py:48)
    last_alert_time,        \* None or a timestamp        (main.py:47)
    clock,                  \* what datetime.now() returns
    lifespan,               \* "created" | "running" | "closed"
    req,                    \* the request handlers in flight
    call                    \* the last direct call of a pure function

vars == <<model, ENABLE_N8N_ALERTS, ALERT_COOLDOWN_SECONDS, last_alert_time,
          clock, lifespan, req, call>>

---------------------------------------------------------------------------
(* Bounds of the model *)

MaxTime == 2
NumReq == 2
MaxCooldown == 2
MaxBoxes == 2

(* last_alert_time = None *)
None == -1

Max(a, b) == IF a >= b THEN a ELSE b
Min(a, b) == IF a <= b THEN a ELSE b

(* Python int() of a quotient a / b, b > 0: truncation toward zero *)
TruncDiv(a, b) == IF a >= 0 THEN a \div b ELSE -((-a) \div b)

(* Length of the Python/numpy slice [start:stop] of an axis of n elements:
   a negative index counts from the end, both ends are clipped to 0..n *)
SliceIndex(i, n) == IF i < 0 THEN Max(i + n, 0) ELSE Min(i, n)
SliceLen(start, stop, n) == Max(0, SliceIndex(stop, n) - SliceIndex(start, n))

---------------------------------------------------------------------------
(* apply_roi: percentage bounds to absolute bounds and the cropped size *)

RoiX0(W, x0p) == Max(0, TruncDiv(W * x0p, 100))
RoiY0(H, y0p) == Max(0, TruncDiv(H * y0p, 100))
RoiX1(W, x1p) == Min(W, TruncDiv(W * x1p, 100))
RoiY1(H, y1p) == Min(H, TruncDiv(H * y1p, 100))

apply_roi(W, H, x0p, y0p, x1p, y1p) ==
    LET x0 == RoiX0(W, x0p)
        y0 == RoiY0(H, y0p)
        x1 == RoiX1(W, x1p)
        y1 == RoiY1(H, y1p)
    IN  [x0 |-> x0, y0 |-> y0, x1 |-> x1, y1 |-> y1,
         roi_w |-> SliceLen(x0, x1, W),
         roi_h |-> SliceLen(y0, y1, H),
         raised |-> FALSE]

---------------------------------------------------------------------------
(* Floats as exact fractions [num, den], den > 0 *)

Frac(n, d) == [num |-> n, den |-> d]
(* a >= b, as a.num >= ceil(b.num * a.den / b.den), which keeps the products
   small *)
CeilDiv(x, q) == -((-x) \div q)
GE(a, b) == a.num >= CeilDiv(b.num * a.den, b.den)
FMax(a, b) == IF GE(a, b) THEN a ELSE b
Milli(n) == Frac(n, 1000)
Centi(n) == Frac(n, 100)

(* round(x, 2), in hundredths: the nearest hundredth; at an exact decimal tie
   the binary float decides, so either neighbour is possible *)
Round2(x) ==
    LET k == (100 * x.num) \div x.den
        r == 100 * x.num - k * x.den
    IN  IF 2 * r < x.den THEN {k}
        ELSE IF 2 * r > x.den THEN {k + 1}
        ELSE {k, k + 1}

---------------------------------------------------------------------------
(* calculate_density_status *)

(* Faulty variant: the warn threshold as an exclusive bound *)
StatusLowExclusive(density, warn_threshold) ==
    IF GE(density, warn_threshold) /\ ~GE(warn_threshold, density)
    THEN "warning" ELSE "normal"

StatusLow(density, warn_threshold) ==
    IF GE(density, warn_threshold) THEN "warning" ELSE "normal"

calculate_density_status(density, warn_threshold, danger_threshold) ==
    IF GE(density, danger_threshold)
    THEN "danger"
    ELSE StatusLow(density, warn_threshold)

---------------------------------------------------------------------------
(* detect_people: the boxes the detector emitted for the ROI image, kept
   when of class 0, coordinates through int(), confidence as is *)

PersonClass == 0

IsPerson(raw) == raw.cls = PersonClass

LocalBox(raw) ==
    [x1 |-> TruncDiv(raw.x1, 2), y1 |-> TruncDiv(raw.y1, 2),
     x2 |-> TruncDiv(raw.x2, 2), y2 |-> TruncDiv(raw.y2, 2),
     confidence |-> raw.conf]

RECURSIVE detect_people(_)
detect_people(emitted) ==
    IF emitted = <<>> THEN <<>>
    ELSE IF IsPerson(Head(emitted))
         THEN <<LocalBox(Head(emitted))>> \o detect_people(Tail(emitted))
         ELSE detect_people(Tail(emitted))

(* Faulty variant: only the first corner is moved to the original frame *)
GlobalBoxFirstCorner(box, x0, y0) ==
    [x1 |-> box.x1 + x0, y1 |-> box.y1 + y0,
     x2 |-> box.x2, y2 |-> box.y2,
     confidence |-> box.confidence]

(* BoundingBox(x1=box["x1"] + x0, ...) *)
GlobalBox(box, x0, y0) ==
    [x1 |-> box.x1 + x0, y1 |-> box.y1 + y0,
     x2 |-> box.x2 + x0, y2 |-> box.y2 + y0,
     confidence |-> box.confidence]

GlobalBoxes(boxes, x0, y0) ==
    [i \in 1..Len(boxes) |-> GlobalBox(boxes[i], x0, y0)]

---------------------------------------------------------------------------
(* The detect pipeline between the upload and the alert *)

NeedsRoi(roi) == roi[1] > 0 \/ roi[2] > 0 \/ roi[3] < 100 \/ roi[4] < 100

(* x0, y0 and the size of the image handed to the detector *)
RoiOf(inp) ==
    IF NeedsRoi(inp.roi)
    THEN apply_roi(inp.img.W, inp.img.H,
                   inp.roi[1], inp.roi[2], inp.roi[3], inp.roi[4])
    ELSE [x0 |-> 0, y0 |-> 0, x1 |-> inp.img.W, y1 |-> inp.img.H,
          roi_w |-> inp.img.W, roi_h |-> inp.img.H, raised |-> FALSE]

Epsilon == Frac(1, 1000000)

(* Faulty variant: integer division of the count by the area *)
DensityFloorDiv(person_count, roi_area_m2) ==
    LET a == FMax(Milli(roi_area_m2), Epsilon)
    IN  Frac((person_count * a.den) \div a.num, 1)

Density(person_count, roi_area_m2) ==
    LET a == FMax(Milli(roi_area_m2), Epsilon)
    IN  Frac(person_count * a.den, a.num)

NoResult ==
    [person_count |-> 0, density |-> 0, status |-> "none",
     bounding_boxes |-> <<>>, image_width |-> 0, image_height |-> 0,
     roi_area_m2 |-> 0, density_warn_threshold |-> 0,
     density_danger_threshold |-> 0, message |-> <<"none", 0>>]

NoRoi == [x0 |-> 0, y0 |-> 0, x1 |-> 0, y1 |-> 0,
          roi_w |-> 0, roi_h |-> 0, raised |-> FALSE]

(* The DetectionResult for an input, one per possible rounding *)
DetectionResults(inp) ==
    LET roi == RoiOf(inp)
        boxes == detect_people(inp.det.boxes)
        person_count == Len(boxes)
        density == Density(person_count, inp.roi_area_m2)
        status == calculate_density_status(
                      density, Milli(inp.density_warn), Milli(inp.density_danger))
    IN  { [person_count |-> person_count,
           density |-> d,
           status |-> status,
           bounding_boxes |-> GlobalBoxes(boxes, roi.x0, roi.y0),
           image_width |-> inp.img.W,
           image_height |-> inp.img.H,
           roi_area_m2 |-> inp.roi_area_m2,
           density_warn_threshold |-> inp.density_warn,
           density_danger_threshold |-> inp.density_danger,
           message |-> <<status, d>>] : d \in Round2(density) }

(* Whether the pipeline raises before a result exists: the upload does not
   decode, the model is gone, the ROI slice or the detector raises *)
PipelineRaises(inp, mdl) ==
    \/ ~inp.img.ok
    \/ RoiOf(inp).raised
    \/ mdl = "None"
    \/ inp.det.raises

---------------------------------------------------------------------------
(* Request handlers.  A handler runs without interruption between two
   awaits; pc names the await it is suspended at. *)

Req == 1..NumReq

IdleReq ==
    [kind |-> "none", pc |-> "idle", inp |-> <<>>, raised |-> "none",
     roi |-> NoRoi, result |-> NoResult, now |-> None, outcome |-> "none",
     resp |-> [code |-> 0, body |-> NoResult]]

(* except Exception as e: raise HTTPException(status_code=500, ...) *)
DetectExcept(raised) == 500

(* The response of a detect handler: the result, or the failure for what
   was raised inside its try block *)
DetectResponse(raised, result) ==
    IF raised = "none"
    THEN [code |-> 200, body |-> result]
    ELSE [code |-> DetectExcept(raised), body |-> NoResult]

(* The response of the manual-alert handler after send_alert_to_n8n *)
AlertResponse(raised, result) ==
    IF raised = "none"
    THEN [code |-> 200, body |-> NoResult]
    ELSE [code |-> 500, body |-> NoResult]

Response(kind, raised, result) ==
    IF kind = "detect" THEN DetectResponse(raised, result)
    ELSE AlertResponse(raised, result)

(* Faulty variant: an alert exactly one cooldown after the last is still
   suppressed *)
InCooldownInclusive(lat, now, cooldown) == lat # None /\ now - lat <= cooldown

(* send_alert_to_n8n, the cooldown check *)
InCooldown(lat, now, cooldown) == lat # None /\ now - lat < cooldown

(* Faulty variant: every attempt is recorded, delivered or not *)
RecordAlertAlways(lat, now, outcome) == now

(* send_alert_to_n8n, what the delivery's end writes to last_alert_time *)
RecordAlert(lat, now, outcome) == IF outcome = "200" THEN now ELSE lat

(* Faulty variant: a timeout is not caught *)
AlertRaisesTimeout(outcome) == IF outcome = "timeout" THEN "Exception" ELSE "none"

(* send_alert_to_n8n, the except clauses: what a delivery outcome raises to
   the caller *)
AlertRaises(outcome) == "none"

Outcomes == {"200", "non2xx", "timeout", "error"}

(* Faulty variant: the timestamp is written before the webhook call *)
SendAlertCheckAndSet(r, rec, res) ==
    IF InCooldown(last_alert_time, clock, ALERT_COOLDOWN_SECONDS)
    THEN /\ UNCHANGED last_alert_time
         /\ req' = [req EXCEPT ![r] =
                [rec EXCEPT !.pc = "done", !.result = res,
                            !.outcome = "suppressed",
                            !.resp = Response(rec.kind, "none", res)]]
    ELSE /\ last_alert_time' = clock
         /\ req' = [req EXCEPT ![r] =
                [rec EXCEPT !.pc = "awaiting", !.result = res,
                            !.now = clock]]

(* send_alert_to_n8n up to the webhook await, entered by request r holding
   result res; rec is r's record so far *)
SendAlert(r, rec, res) ==
    /\ UNCHANGED last_alert_time
    /\ IF InCooldown(last_alert_time, clock, ALERT_COOLDOWN_SECONDS)
       THEN req' = [req EXCEPT ![r] =
                [rec EXCEPT !.pc = "done", !.result = res,
                            !.outcome = "suppressed",
                            !.resp = Response(rec.kind, "none", res)]]
       ELSE req' = [req EXCEPT ![r] =
                [rec EXCEPT !.pc = "awaiting", !.result = res,
                            !.now = clock]]

(* The webhook call of request r ends with outcome o: the rest of
   send_alert_to_n8n and of its caller *)
AlertComplete(r, o) ==
    /\ req[r].pc = "awaiting"
    /\ o \in Outcomes
    /\ last_alert_time' = RecordAlert(last_alert_time, req[r].now, o)
    /\ req' = [req EXCEPT ![r] =
           [@ EXCEPT !.pc = "done", !.outcome = o, !.now = None,
                     !.raised = AlertRaises(o),
                     !.resp = Response(req[r].kind, AlertRaises(o),
                                       req[r].result)]]
    /\ UNCHANGED <<model, ENABLE_N8N_ALERTS, ALERT_COOLDOWN_SECONDS, clock,
                   lifespan, call>>

(* detect_crowd_density up to await file.read() *)
DetectStart(r, inp) ==
    /\ req[r].pc = "idle"
    /\ IF model = "None"
       THEN req' = [req EXCEPT ![r] =
                [IdleReq EXCEPT !.kind = "detect", !.pc = "done", !.inp = inp,
                                !.raised = "HTTPException503",
                                !.resp = DetectResponse("HTTPException503",
                                                        NoResult)]]
       ELSE req' = [req EXCEPT ![r] =
                [IdleReq EXCEPT !.kind = "detect", !.pc = "reading",
                                !.inp = inp]]
    /\ UNCHANGED <<model, ENABLE_N8N_ALERTS, ALERT_COOLDOWN_SECONDS,
                   last_alert_time, clock, lifespan, call>>

(* detect_crowd_density from the upload's bytes to the alert or the return *)
DetectRun(r) ==
    /\ req[r].pc = "reading"
    /\ LET inp == req[r].inp IN
       IF PipelineRaises(inp, model)
       THEN /\ req' = [req EXCEPT ![r] =
                   [@ EXCEPT !.pc = "done", !.raised = "Exception",
                             !.resp = DetectResponse("Exception", NoResult)]]
            /\ UNCHANGED last_alert_time
       ELSE \E res \in DetectionResults(inp) :
              LET rec == [req[r] EXCEPT !.roi = RoiOf(inp)] IN
              IF ENABLE_N8N_ALERTS /\ res.status \in {"warning", "danger"}
              THEN SendAlert(r, rec, res)
              ELSE /\ req' = [req EXCEPT ![r] =
                          [rec EXCEPT !.pc = "done", !.result = res,
                                      !.resp = DetectResponse("none", res)]]
                   /\ UNCHANGED last_alert_time
    /\ UNCHANGED <<model, ENABLE_N8N_ALERTS, ALERT_COOLDOWN_SECONDS, clock,
                   lifespan, call>>

(* The DetectionResult send_alert_webhook builds from its form fields *)
TestResults(inp) ==
    { [person_count |-> inp.person_count,
       density |-> d,
       status |-> inp.alert_type,
       bounding_boxes |-> <<>>,
       image_width |-> 1280,
       image_height |-> 720,
       roi_area_m2 |-> inp.roi_area_m2,
       density_warn_threshold |-> inp.warn_threshold,
       density_danger_threshold |-> inp.danger_threshold,
       message |-> <<inp.alert_type, 0>>] : d \in Round2(Milli(inp.density)) }

(* send_alert_webhook up to the webhook await *)
ManualAlert(r, inp) ==
    /\ req[r].pc = "idle"
    /\ LET rec == [IdleReq EXCEPT !.kind = "alert", !.inp = inp] IN
       IF ~ENABLE_N8N_ALERTS
       THEN /\ req' = [req EXCEPT ![r] =
                   [rec EXCEPT !.pc = "done",
                               !.resp = AlertResponse("none", NoResult)]]
            /\ UNCHANGED last_alert_time
       ELSE \E res \in TestResults(inp) : SendAlert(r, rec, res)
    /\ UNCHANGED <<model, ENABLE_N8N_ALERTS, ALERT_COOLDOWN_SECONDS, clock,
                   lifespan, call>>

(* The response is sent and the handler's slot is free again *)
Retire(r) ==
    /\ req[r].pc = "done"
    /\ req' = [req EXCEPT ![r] = IdleReq]
    /\ UNCHANGED <<model, ENABLE_N8N_ALERTS, ALERT_COOLDOWN_SECONDS,
                   last_alert_time, clock, lifespan, call>>

(* lifespan: the model is loaded at startup and dropped at shutdown *)
Startup ==
    /\ lifespan = "created"
    /\ lifespan' = "running"
    /\ model' = "loaded"
    /\ UNCHANGED <<ENABLE_N8N_ALERTS, ALERT_COOLDOWN_SECONDS, last_alert_time,
                   clock, req, call>>

Shutdown ==
    /\ lifespan = "running"
    /\ lifespan' = "closed"
    /\ model' = "None"
    /\ UNCHANGED <<ENABLE_N8N_ALERTS, ALERT_COOLDOWN_SECONDS, last_alert_time,
                   clock, req, call>>

(* Time passes *)
Tick ==
    /\ clock < MaxTime
    /\ clock' = clock + 1
    /\ UNCHANGED <<model, ENABLE_N8N_ALERTS, ALERT_COOLDOWN_SECONDS,
                   last_alert_time, lifespan, req, call>>

---------------------------------------------------------------------------
(* Inputs *)

BoundedSeq(S, n) == UNION {[1..k -> S] : k \in 0..n}

(* Boxes a detector can emit: class, corners in half pixels, confidence *)
RawChoices ==
    { [cls |-> 0, x1 |-> 1, y1 |-> 0, x2 |-> 5, y2 |-> 7, conf |-> 90],
      [cls |-> 0, x1 |-> 2, y1 |-> 3, x2 |-> 4, y2 |-> 5, conf |-> 60],
      [cls |-> 1, x1 |-> 0, y1 |-> 0, x2 |-> 2, y2 |-> 2, conf |-> 80] }

(* model(img, conf=..., classes=[0], ...): it raises, or emits boxes inside
   the image it was given, each at or above the confidence threshold *)
DetectorOutputs(w, h, conf_threshold) ==
    LET fit == {b \in RawChoices :
                   b.x2 <= 2 * w /\ b.y2 <= 2 * h /\ b.conf >= conf_threshold}
    IN  {[raises |-> TRUE, boxes |-> <<>>]}
        \cup {[raises |-> FALSE, boxes |-> bs] : bs \in BoundedSeq(fit, MaxBoxes)}

Images == { [ok |-> TRUE, W |-> 10, H |-> 8], [ok |-> TRUE, W |-> 4, H |-> 6] }
BadImage == [ok |-> FALSE, W |-> 0, H |-> 0]

FullFrame == <<0, 0, 100, 100>>
RoiChoices ==
    { FullFrame, <<30, 50, 100, 100>>, <<10, 25, 60, 75>>, <<-50, 0, 100, 100>>,
      <<50, 0, 30, 100>>, <<0, 0, 150, 150>>, <<120, 0, 150, 100>>,
      <<30, 30, 30, 30>>, <<0, 0, -50, 100>> }

DetectInputsOver(imgs, rois, areas, warns, dangers, confs) ==
    UNION { { [img |-> i, roi |-> ro, det |-> d, roi_area_m2 |-> a,
               density_warn |-> w, density_danger |-> g, conf_threshold |-> c]
              : d \in DetectorOutputs(
                        RoiOf([img |-> i, roi |-> ro]).roi_w,
                        RoiOf([img |-> i, roi |-> ro]).roi_h, c) }
            : <<i, ro, a, w, g, c>> \in
                  imgs \X rois \X areas \X warns \X dangers \X confs }

UndecodableInput ==
    [img |-> BadImage, roi |-> FullFrame,
     det |-> [raises |-> FALSE, boxes |-> <<>>], roi_area_m2 |-> 20000,
     density_warn |-> 5000, density_danger |-> 6500, conf_threshold |-> 50]

(* The detect requests of the pipeline specification: every frame, ROI,
   detector output and confidence threshold under the default area and
   thresholds, and every area and threshold pair under two ROIs with up to
   MaxBoxes persons *)
GeometryInputs ==
    DetectInputsOver(Images, RoiChoices, {20000}, {5000}, {6500}, {50, 70})

DensityInputs ==
    { x \in DetectInputsOver({[ok |-> TRUE, W |-> 10, H |-> 8]},
                             {FullFrame, <<30, 50, 100, 100>>},
                             {0, 1000, 3000, 8000}, {333, 670}, {670, 5000},
                             {70}) :
          \A k \in 1..Len(x.det.boxes) : IsPerson(x.det.boxes[k]) }

WideInputs == GeometryInputs \cup DensityInputs \cup {UndecodableInput}

(* The detect requests of the server specifications: a 10 x 8 frame, the
   ROI (3, 4)-(10, 8) of 1 m2, thresholds 1.0 and 2.0; the detector raises
   or emits at most one box, so the status is normal or warning *)
SmallInputs ==
    { x \in DetectInputsOver({[ok |-> TRUE, W |-> 10, H |-> 8]},
                             {<<30, 50, 100, 100>>}, {1000}, {1000}, {2000},
                             {70}) :
          /\ Len(x.det.boxes) <= 1
          /\ \A k \in 1..Len(x.det.boxes) : IsPerson(x.det.boxes[k]) }

ManualInputs ==
    { [alert_type |-> "danger", person_count |-> 25, density |-> 5500,
       roi_area_m2 |-> 20000, warn_threshold |-> 5000,
       danger_threshold |-> 6500] }

---------------------------------------------------------------------------
(* The server: NumReq handlers interleaving on one event loop *)

NoCall == [fn |-> "none", args |-> <<>>, done |-> TRUE, ret |-> <<>>]

Config ==
    /\ ENABLE_N8N_ALERTS \in BOOLEAN
    /\ ALERT_COOLDOWN_SECONDS \in 0..MaxCooldown
    /\ last_alert_time = None
    /\ clock = 0
    /\ req = [r \in Req |-> IdleReq]
    /\ call = NoCall

Init ==
    /\ model = "None"
    /\ lifespan = "created"
    /\ Config

Next ==
    \/ Startup
    \/ Shutdown
    \/ Tick
    \/ \E r \in Req, inp \in SmallInputs : DetectStart(r, inp)
    \/ \E r \in Req : DetectRun(r)
    \/ \E r \in Req, inp \in ManualInputs : ManualAlert(r, inp)
    \/ \E r \in Req, o \in Outcomes : AlertComplete(r, o)
    \/ \E r \in Req : Retire(r)

Spec == Init /\ [][Next]_vars

---------------------------------------------------------------------------
(* The server with requests handled one after another: a handler starts
   only when no other is in flight *)

NoneInFlight == \A r \in Req : req[r].pc \in {"idle", "done"}

SeqDetectStart(r, inp) == NoneInFlight /\ DetectStart(r, inp)
SeqManualAlert(r, inp) == NoneInFlight /\ ManualAlert(r, inp)

SeqNext ==
    \/ Startup
    \/ Shutdown
    \/ Tick
    \/ \E r \in Req, inp \in SmallInputs : SeqDetectStart(r, inp)
    \/ \E r \in Req : DetectRun(r)
    \/ \E r \in Req, inp \in ManualInputs : SeqManualAlert(r, inp)
    \/ \E r \in Req, o \in Outcomes : AlertComplete(r, o)
    \/ \E r \in Req : Retire(r)

SeqSpec == Init /\ [][SeqNext]_vars

---------------------------------------------------------------------------
(* One detect request at a time over the wide inputs *)

PipeNext ==
    \/ Startup
    \/ Shutdown
    \/ \E inp \in WideInputs : DetectStart(1, inp)
    \/ DetectRun(1)
    \/ \E o \in Outcomes : AlertComplete(1, o)
    \/ Retire(1)

PipeSpec == Init /\ [][PipeNext]_vars

---------------------------------------------------------------------------
(* The pure functions called directly: the call's arguments are drawn at
   the start, the step applies the function *)

MaxLevel == 3

Percents == {-50, 0, 30, 50, 100, 150}

RoiCalls ==
    { [fn |-> "apply_roi", args |-> <<W, H, x0p, y0p, x1p, y1p>>,
       done |-> FALSE, ret |-> <<>>] :
          W \in {4, 10}, H \in {8},
          x0p \in Percents, y0p \in Percents,
          x1p \in Percents, y1p \in Percents }

StatusCalls ==
    { [fn |-> "calculate_density_status", args |-> <<d, w, g>>,
       done |-> FALSE, ret |-> <<>>] :
          d \in 0..MaxLevel, w \in 0..MaxLevel, g \in 0..MaxLevel }

FnInit ==
    /\ model = "None"
    /\ lifespan = "created"
    /\ ENABLE_N8N_ALERTS = TRUE
    /\ ALERT_COOLDOWN_SECONDS = 0
    /\ last_alert_time = None
    /\ clock = 0
    /\ req = [r \in Req |-> IdleReq]
    /\ call \in RoiCalls \cup StatusCalls

CallApplyRoi ==
    /\ call.fn = "apply_roi"
    /\ ~call.done
    /\ call' = [call EXCEPT
                   !.done = TRUE,
                   !.ret = apply_roi(call.args[1], call.args[2], call.args[3],
                                     call.args[4], call.args[5], call.args[6])]
    /\ UNCHANGED <<model, ENABLE_N8N_ALERTS, ALERT_COOLDOWN_SECONDS,
                   last_alert_time, clock, lifespan, req>>

(* densities and thresholds in hundredths *)
CallDensityStatus ==
    /\ call.fn = "calculate_density_status"
    /\ ~call.done
    /\ call' = [call EXCEPT
                   !.done = TRUE,
                   !.ret = calculate_density_status(
                               Centi(call.args[1]), Centi(call.args[2]),
                               Centi(call.args[3]))]
    /\ UNCHANGED <<model, ENABLE_N8N_ALERTS, ALERT_COOLDOWN_SECONDS,
                   last_alert_time, clock, lifespan, req>>

FnNext == CallApplyRoi \/ CallDensityStatus

FnSpec == FnInit /\ [][FnNext]_vars

---------------------------------------------------------------------------
(* Properties *)

AlertWorthy(res) == res.status \in {"warning", "danger"}

(* Request r's alert-worthy result arrives at send_alert_to_n8n in this step *)
Arrives(r) ==
    /\ req[r].pc \in {"idle", "reading"}
    /\ AlertWorthy(req'[r].result)
    /\ req'[r].pc = "awaiting" \/ req'[r].outcome = "suppressed"

(* Request r's webhook call ends in this step *)
Completes(r) == req[r].pc = "awaiting" /\ req'[r].pc = "done"

Elapsed == clock - last_alert_time

(* C1, as amended: with requests handled one after another and an alert
   recorded at s = last_alert_time, an alert-worthy result arriving at t
   with t - s < cooldown is suppressed (the handler is done without a
   webhook call, last_alert_time unchanged); one arriving with
   t - s >= cooldown is dispatched with timestamp t; and a dispatched call
   sets last_alert_time to its timestamp when it ends with HTTP 200 and
   leaves it unchanged otherwise. *)
C1_ThrottleWindow ==
    [][\A r \in Req :
        /\ (Arrives(r) /\ last_alert_time # None
                /\ Elapsed < ALERT_COOLDOWN_SECONDS)
            => /\ req'[r].pc = "done"
               /\ req'[r].outcome = "suppressed"
               /\ last_alert_time' = last_alert_time
        /\ (Arrives(r) /\ last_alert_time # None
                /\ Elapsed >= ALERT_COOLDOWN_SECONDS)
            => /\ req'[r].pc = "awaiting"
               /\ req'[r].now = clock
               /\ last_alert_time' = last_alert_time
        /\ Completes(r)
            => last_alert_time' = IF req'[r].outcome = "200"
                                  THEN req[r].now ELSE last_alert_time
      ]_vars

(* C1, witness: after an earlier suppression, a request passed the check one
   cooldown or more after a recorded alert and is at the webhook await *)
C1_Witness ==
    \E r1 \in Req, r2 \in Req :
        /\ req[r1].pc = "awaiting"
        /\ ALERT_COOLDOWN_SECONDS > 0
        /\ last_alert_time # None
        /\ req[r1].now - last_alert_time >= ALERT_COOLDOWN_SECONDS
        /\ req[r2].pc = "done"
        /\ req[r2].outcome = "suppressed"

(* C1, as stated: ... one arriving with t - s >= cooldown is dispatched and
   resets the window, last_alert_time becomes t. *)
C1_Original ==
    [][\A r \in Req :
        /\ (Arrives(r) /\ last_alert_time # None
                /\ Elapsed < ALERT_COOLDOWN_SECONDS)
            => /\ req'[r].pc = "done"
               /\ req'[r].outcome = "suppressed"
               /\ last_alert_time' = last_alert_time
        /\ (Arrives(r) /\ last_alert_time # None
                /\ Elapsed >= ALERT_COOLDOWN_SECONDS)
            => req'[r].pc = "awaiting"
        /\ (Completes(r) /\ last_alert_time # None
                /\ ALERT_COOLDOWN_SECONDS > 0)
            => last_alert_time' = req[r].now
      ]_vars

(* C2, as amended: the end of a dispatch attempt records the attempt's
   timestamp in last_alert_time only when the delivery returned HTTP 200; a
   non-2xx response, a timeout or a network error leaves last_alert_time as
   it was. *)
C2_RecordedOnDelivery ==
    [][\A r \in Req :
        Completes(r) =>
            /\ req'[r].outcome = "200" => last_alert_time' = req[r].now
            /\ req'[r].outcome # "200" => last_alert_time' = last_alert_time
      ]_vars

(* C2, witness: with requests handled one after another, a delivery timed
   out and a later alert, less than one cooldown after it, was dispatched *)
C2_Witness ==
    \E r1 \in Req, r2 \in Req :
        /\ req[r1].pc = "done"
        /\ req[r1].outcome = "timeout"
        /\ req[r2].pc = "awaiting"
        /\ clock < ALERT_COOLDOWN_SECONDS

(* C2, as stated: every dispatch attempt records its timestamp in
   last_alert_time, whatever the delivery outcome. *)
C2_Original ==
    [][\A r \in Req : Completes(r) => last_alert_time' = req[r].now]_vars

(* C3, as stated: apply_roi returns bounds with 0 <= x0 <= x1 <= W and
   0 <= y0 <= y1 <= H and does not raise, for every percentage input. *)
C3_RoiClamped ==
    (call.fn = "apply_roi" /\ call.done) =>
        LET W == call.args[1]
            H == call.args[2]
            b == call.ret
        IN  /\ 0 <= b.x0 /\ b.x0 <= b.x1 /\ b.x1 <= W
            /\ 0 <= b.y0 /\ b.y0 <= b.y1 /\ b.y1 <= H
            /\ ~b.raised

(* C4, as stated: a detect request that finds the model not loaded is
   answered with HTTP 503, not with the 500 of the other failures. *)
C4_NotReadyIs503 ==
    \A r \in Req :
        (req[r].pc = "done" /\ req[r].raised = "HTTPException503")
            => req[r].resp.code = 503

(* C5: in every returned DetectionResult the i-th bounding box is the i-th
   person box the detector emitted, read through int(), with the ROI's
   offset (x0, y0) added to both corners and the confidence unchanged; as
   many boxes as emitted; the offset of a full-frame request is (0, 0). *)
C5_CoordinateRemapping ==
    \A r \in Req :
        (req[r].kind = "detect" /\ req[r].pc = "done" /\ req[r].resp.code = 200)
        => LET emitted == SelectSeq(req[r].inp.det.boxes,
                                    LAMBDA b : b.cls = 0)
               boxes == req[r].resp.body.bounding_boxes
               x0 == req[r].roi.x0
               y0 == req[r].roi.y0
           IN  /\ Len(boxes) = Len(emitted)
               /\ req[r].resp.body.person_count = Len(emitted)
               /\ \A i \in 1..Len(boxes) :
                      /\ boxes[i].x1 = (emitted[i].x1 \div 2) + x0
                      /\ boxes[i].y1 = (emitted[i].y1 \div 2) + y0
                      /\ boxes[i].x2 = (emitted[i].x2 \div 2) + x0
                      /\ boxes[i].y2 = (emitted[i].y2 \div 2) + y0
                      /\ boxes[i].confidence = emitted[i].conf
               /\ req[r].inp.roi = FullFrame => (x0 = 0 /\ y0 = 0)

(* C5, witness: a result with two boxes from an ROI at offset (3, 4), the
   detector having emitted a non-person box as well *)
C5_Witness ==
    \E r \in Req :
        /\ req[r].kind = "detect" /\ req[r].pc = "done"
        /\ req[r].resp.code = 200
        /\ req[r].roi.x0 = 3 /\ req[r].roi.y0 = 4
        /\ Len(req[r].resp.body.bounding_boxes) >= 1
        /\ Len(req[r].inp.det.boxes) > Len(req[r].resp.body.bounding_boxes)
        /\ req[r].resp.body.bounding_boxes[1].x2 = 5
        /\ req[r].resp.body.bounding_boxes[1].y2 = 7

(* C6: calculate_density_status returns danger exactly when d >= danger,
   warning exactly when d < danger and d >= warn, normal otherwise, for
   every pair of thresholds, warn > danger included. *)
C6_ThresholdLadder ==
    (call.fn = "calculate_density_status" /\ call.done) =>
        LET d == call.args[1]
            warn == call.args[2]
            danger == call.args[3]
        IN  /\ call.ret = "danger" <=> d >= danger
            /\ call.ret = "warning" <=> (d < danger /\ d >= warn)
            /\ call.ret = "normal" <=> (d < danger /\ d < warn)

(* C6, witness: thresholds misconfigured with warn > danger, the density
   exactly at the danger threshold and below warn *)
C6_Witness ==
    /\ call.fn = "calculate_density_status" /\ call.done
    /\ call.args[2] > call.args[3]
    /\ call.args[1] = call.args[3]
    /\ call.ret = "danger"

(* C7: a detect request whose computed result is alert-worthy returns that
   result with HTTP 200 whatever the alert path did (delivered, non-2xx,
   timeout, network error, suppressed): the body is the result computed
   before the alert attempt, which is the pipeline's result for the input. *)
C7_ErrorIsolation ==
    \A r \in Req :
        (req[r].kind = "detect" /\ req[r].pc = "done"
            /\ AlertWorthy(req[r].result))
        => /\ req[r].resp.code = 200
           /\ req[r].resp.body = req[r].result
           /\ req[r].resp.body \in DetectionResults(req[r].inp)

(* C7, witness: the webhook call of a detect request timed out and the
   request returned its warning result *)
C7_Witness ==
    \E r \in Req :
        /\ req[r].kind = "detect" /\ req[r].pc = "done"
        /\ req[r].outcome = "timeout"
        /\ req[r].resp.code = 200
        /\ req[r].resp.body.status = "warning"

(* C8: the step that issues a webhook call leaves last_alert_time as the
   cooldown check read it, so until a delivery ends the throttle stays
   Cooled and a concurrent request passes the check as well. *)
C8_CheckThenWrite ==
    [][\A r \in Req :
        (req[r].pc # "awaiting" /\ req'[r].pc = "awaiting")
        => /\ last_alert_time' = last_alert_time
           /\ \/ last_alert_time' = None
              \/ clock' - last_alert_time' >= ALERT_COOLDOWN_SECONDS
      ]_vars

(* C8, witness: two requests are both at the webhook await, their calls less
   than one cooldown apart *)
C8_Witness ==
    \E r1 \in Req, r2 \in Req :
        /\ r1 # r2
        /\ req[r1].pc = "awaiting" /\ req[r2].pc = "awaiting"
        /\ req[r1].now <= req[r2].now
        /\ req[r2].now - req[r1].now < ALERT_COOLDOWN_SECONDS

(* C9, as stated: every write to last_alert_time stores a timestamp at or
   after the one it replaces (here under a cooldown of at least 1). *)
C9_NeverBackwards ==
    [][(last_alert_time # None /\ ALERT_COOLDOWN_SECONDS > 0)
        => last_alert_time' >= last_alert_time]_vars

(* The status a reported density (hundredths) has against thresholds
   (thousandths) *)
Ladder(h, warn, danger) ==
    IF 10 * h >= danger THEN "danger"
    ELSE IF 10 * h >= warn THEN "warning"
    ELSE "normal"

(* The status of person_count / max(area, 1e-6) against thresholds, area and
   thresholds in thousandths *)
ExactLadder(n, area, warn, danger) ==
    LET ge(t) == IF area >= 1 THEN n * 1000000 >= t * area
                 ELSE n * 1000000 >= CeilDiv(t, 1000)
    IN  IF ge(danger) THEN "danger"
        ELSE IF ge(warn) THEN "warning"
        ELSE "normal"

(* C10, as amended: in every returned DetectionResult the status is the
   classification of the unrounded density person_count / max(roi_area_m2,
   1e-6) against the result's own thresholds, and the reported density is
   that value rounded to 2 decimals, at most 0.005 away from it. *)
C10_StatusOfUnroundedDensity ==
    \A r \in Req :
        (req[r].kind = "detect" /\ req[r].pc = "done" /\ req[r].resp.code = 200)
        => LET b == req[r].resp.body
               n == b.person_count
               a == b.roi_area_m2
               off == b.density * a - 100000 * n
           IN  /\ b.status = ExactLadder(n, a, b.density_warn_threshold,
                                         b.density_danger_threshold)
               /\ a >= 1 => (2 * off <= a /\ -2 * off <= a)
               /\ a < 1 => b.density = 100000000 * n

(* C10, witness: a returned result is normal while its reported density is
   at the warn threshold *)
C10_Witness ==
    \E r \in Req :
        /\ req[r].kind = "detect" /\ req[r].pc = "done"
        /\ req[r].resp.code = 200
        /\ req[r].resp.body.status = "normal"
        /\ 10 * req[r].resp.body.density >= req[r].resp.body.density_warn_threshold

(* C10, as stated: the status is the classification of the reported
   (rounded) density against the result's own thresholds. *)
C10_Original ==
    \A r \in Req :
        (req[r].kind = "detect" /\ req[r].pc = "done" /\ req[r].resp.code = 200)
        => LET b == req[r].resp.body
           IN  b.status = Ladder(b.density, b.density_warn_threshold,
                                 b.density_danger_threshold)

====
